---- MODULE Spec2Model ----
(***************************************************************************)
(* Generator Specs (Maven_Generator_Specs.py): the specification catalog,  *)
(* the selection state of GeneratorSpecsApp, the load ledger with its      *)
(* add dialog, the safety checklist, and the save-report handler with the  *)
(* PDF renderer and the sqlite record store as collaborators.              *)
(*                                                                         *)
(* Python's None is the empty tuple and a present value x is <<x>>, so an  *)
(* Optional is always a tuple.  Text typed into an entry is a sequence of  *)
(* one-character strings, so that int() can be modelled on its characters. *)
(***************************************************************************)
EXTENDS Integers, Sequences, FiniteSets, TLC

None == <<>>
Some(x) == <<x>>

\* dict.get(key): the value wrapped, or None when the key is absent.
Get(d, k) == IF k \in DOMAIN d THEN Some(d[k]) ELSE None

\* @dataclass WiringSpecs, positional constructor.
WiringSpecs(voltage, amperage, wire_gauge, conduit_size, breaker_size, ground_wire, neutral_wire, receptacle, notes) ==
    [voltage |-> voltage, amperage |-> amperage, wire_gauge |-> wire_gauge,
     conduit_size |-> conduit_size, breaker_size |-> breaker_size,
     ground_wire |-> ground_wire, neutral_wire |-> neutral_wire,
     receptacle |-> receptacle, notes |-> notes]

POWER_RATINGS == <<30, 32, 40, 50, 60>>

SINGLE_PHASE_SPECS ==
    (30 :> WiringSpecs("240V", "125A", "1/0 AWG Copper", "1.5\" (1-1/2 inch)", "150A",
                       "6 AWG Copper", "1/0 AWG", "Hardwired dedicated circuit",
                       "Requires isolated ground. Dedicated circuit mandatory per NFPA 99. Must be on emergency power system per healthcare facility code."))
    @@ (32 :> WiringSpecs("240V", "133A", "1/0 AWG Copper", "1.5\" (1-1/2 inch)", "150A",
                       "6 AWG Copper", "1/0 AWG", "Hardwired dedicated circuit",
                       "Isolated ground required. Room requires RF shielding. Emergency power backup mandatory."))
    @@ (40 :> WiringSpecs("240V", "167A", "2/0 AWG Copper", "2\" (2 inch)", "200A",
                       "4 AWG Copper", "2/0 AWG", "Hardwired dedicated circuit",
                       "High-power imaging. Requires 200A+ service. Isolated ground and RF shielding mandatory."))
    @@ (50 :> WiringSpecs("240V", "208A", "4/0 AWG Copper", "2.5\" (2-1/2 inch)", "250A",
                       "4 AWG Copper", "4/0 AWG", "Hardwired dedicated circuit",
                       "CT/MRI class system. Requires dedicated transformer. Harmonic filtering recommended."))
    @@ (60 :> WiringSpecs("240V", "250A", "250 MCM Copper", "3\" (3 inch)", "300A",
                       "2 AWG Copper", "250 MCM", "Hardwired dedicated circuit",
                       "High-field MRI or advanced CT. Requires dedicated service entrance. Power quality monitoring essential."))

THREE_PHASE_SPECS ==
    (30 :> WiringSpecs("208V/480V", "83A @ 208V / 36A @ 480V",
                       "4 AWG Copper (208V) / 8 AWG Copper (480V)", "1.25\" (1-1/4 inch)",
                       "100A (208V) / 50A (480V)", "8 AWG Copper", "4 AWG (if required)",
                       "Hardwired 4-wire connection",
                       "Three-phase medical imaging. Isolated ground required. Phase balance critical for image quality."))
    @@ (32 :> WiringSpecs("208V/480V", "89A @ 208V / 39A @ 480V",
                       "3 AWG Copper (208V) / 8 AWG Copper (480V)", "1.25\" (1-1/4 inch)",
                       "100A (208V) / 50A (480V)", "8 AWG Copper", "3 AWG (if required)",
                       "Hardwired 4-wire connection",
                       "Advanced imaging equipment. Voltage regulation ±5% required. RF shielding mandatory."))
    @@ (40 :> WiringSpecs("208V/480V", "111A @ 208V / 48A @ 480V",
                       "1 AWG Copper (208V) / 6 AWG Copper (480V)", "1.5\" (1-1/2 inch)",
                       "125A (208V) / 60A (480V)", "6 AWG Copper", "1 AWG (if required)",
                       "Hardwired 4-wire connection",
                       "CT scanner class equipment. Power quality monitoring required. THD must be <5%."))
    @@ (50 :> WiringSpecs("208V/480V", "139A @ 208V / 60A @ 480V",
                       "1/0 AWG Copper (208V) / 4 AWG Copper (480V)", "2\" (2 inch)",
                       "175A (208V) / 80A (480V)", "6 AWG Copper", "1/0 AWG (if required)",
                       "Hardwired 4-wire connection",
                       "High-power CT/MRI system. Dedicated transformer recommended. Active harmonic filter may be required."))
    @@ (60 :> WiringSpecs("208V/480V", "167A @ 208V / 72A @ 480V",
                       "2/0 AWG Copper (208V) / 3 AWG Copper (480V)", "2\" (2 inch)",
                       "200A (208V) / 100A (480V)", "4 AWG Copper", "2/0 AWG (if required)",
                       "Hardwired 4-wire connection",
                       "Premium imaging suite. Dedicated electrical room required. K-rated transformer mandatory."))

DEFAULT_LOADS ==
    << [id |-> 1, name |-> "X-Ray Tube", watts |-> 15000, quantity |-> 1],
       [id |-> 2, name |-> "Image Processor", watts |-> 3000, quantity |-> 1],
       [id |-> 3, name |-> "Room HVAC", watts |-> 2000, quantity |-> 1] >>

\* The category -> items dict, in insertion order.
SAFETY_CHECKLIST ==
    << [category |-> "Pre-Installation",
        items |-> << "Verify all permits obtained", "Review local codes",
                     "Confirm specs with manufacturer", "Schedule inspections" >>],
       [category |-> "Electrical System",
        items |-> << "Dedicated circuit installed", "Proper wire gauge verified",
                     "Breaker size matches specs", "Connections properly torqued" >>],
       [category |-> "Grounding",
        items |-> << "Ground rod depth (8ft min)", "Ground resistance (<1Ω)",
                     "Isolated ground installed", "No ground loops" >>],
       [category |-> "Power Quality",
        items |-> << "Voltage within ±5%", "THD within limits (<5%)",
                     "Power quality monitor installed" >>] >>


\* Every item label of the taxonomy, category by category.
RECURSIVE ChecklistItemsFrom(_)
ChecklistItemsFrom(i) ==
    IF i > Len(SAFETY_CHECKLIST) THEN <<>>
    ELSE SAFETY_CHECKLIST[i].items \o ChecklistItemsFrom(i + 1)

ChecklistItems == ChecklistItemsFrom(1)

ChecklistLabels == { ChecklistItems[i] : i \in DOMAIN ChecklistItems }

(***************************************************************************)
(* int(text) on the characters of the text: surrounding whitespace is      *)
(* stripped, one sign is allowed, then decimal digits with single          *)
(* underscores between digits.  Anything else raises ValueError, which is  *)
(* the result None.                                                        *)
(***************************************************************************)
DigitChars == <<"0", "1", "2", "3", "4", "5", "6", "7", "8", "9">>

IsDigit(c) == \E d \in DOMAIN DigitChars : DigitChars[d] = c

DigitVal(c) == (CHOOSE d \in DOMAIN DigitChars : DigitChars[d] = c) - 1

IsSpace(c) == c = " "

RECURSIVE LStrip(_)
LStrip(s) == IF s # <<>> /\ IsSpace(Head(s)) THEN LStrip(Tail(s)) ELSE s

RECURSIVE RStrip(_)
RStrip(s) ==
    IF s # <<>> /\ IsSpace(s[Len(s)]) THEN RStrip(SubSeq(s, 1, Len(s) - 1)) ELSE s

Strip(s) == RStrip(LStrip(s))

\* The digits of s from the left; acc is the value so far, prev the previous
\* character ("" before the first one).
RECURSIVE ParseDigits(_, _, _)
ParseDigits(s, acc, prev) ==
    IF s = <<>> THEN (IF IsDigit(prev) THEN Some(acc) ELSE None)
    ELSE IF IsDigit(Head(s)) THEN ParseDigits(Tail(s), acc * 10 + DigitVal(Head(s)), Head(s))
    ELSE IF Head(s) = "_" /\ IsDigit(prev) THEN ParseDigits(Tail(s), acc, "_")
    ELSE None

PyInt(text) ==
    LET s == Strip(text)
        neg == s # <<>> /\ Head(s) = "-"
        signed == s # <<>> /\ Head(s) \in {"-", "+"}
        mag == ParseDigits(IF signed THEN Tail(s) ELSE s, 0, "")
    IN  IF mag = None THEN None
        ELSE IF neg THEN Some(0 - mag[1]) ELSE mag

\* `text or default` followed by int(): an empty entry is falsy.
IntOrDefault(text, default) == IF text = <<>> THEN Some(default) ELSE PyInt(text)

\* `name or fallback` for a string.
StrOr(s, fallback) == IF s = "" THEN fallback ELSE s

\* Truthiness of an Optional[int] and of an Optional[str].
TruthyInt(o) == o # None /\ o[1] # 0
TruthyStr(o) == o # None /\ o[1] # ""

VARIABLES
    catalog,          \* SINGLE_PHASE_SPECS / THREE_PHASE_SPECS, the module-level dicts
    selected_phase,   \* Optional[str]
    selected_power,   \* Optional[int]
    current_specs,    \* Optional[WiringSpecs]
    current_tab,      \* str
    results_visible,  \* results_frame is packed
    tab_content,      \* what the widgets of tab_content were built from
    loads,            \* self.loads, the list the ledger holds now
    load_id,          \* self.load_id
    dialog,           \* the modal "Add Load" dialog is open
    checklist_vars,   \* label -> BooleanVar value
    project_info,     \* field -> StringVar text
    db,               \* the rows of the reports table
    files,            \* the reports directory: path -> "complete" or "partial"
    temp_files,       \* temporary diagram files left on disk
    now,              \* the clock that datetime.now() reads
    rendered,         \* history: the paths for which generate returned True
    report_ids,       \* history: the report ids of the assembled data dicts, in order
    payload,          \* history: the data dict that _save_report assembled last
    issued,           \* history: every id a ledger entry was given, in order
    last              \* history: the handler that ran last, its arguments and outcome

vars == <<catalog, selected_phase, selected_power, current_specs, current_tab,
          results_visible, tab_content, loads, load_id, dialog, checklist_vars,
          project_info, db, files, temp_files, now, rendered, report_ids, payload, issued,
          last>>

\* What only the report tab and _save_report write.
report_vars == <<project_info, db, files, temp_files, now, rendered, report_ids>>


(***************************************************************************)
(* Catalog lookup, as _update_specs does it: anything but "single" reads   *)
(* the three-phase dict.                                                   *)
(***************************************************************************)
\* Lookup, were the three-phase table never consulted.
LookupSingleOnly(cat, phase, power) ==
    IF phase = Some("single") THEN Get(cat.single, power[1]) ELSE None

\* Lookup, were an unlisted rating given the specification of the largest one.
LookupOrLargest(cat, phase, power) ==
    LET table == IF phase = Some("single") THEN cat.single ELSE cat.three
    IN  IF power[1] \in DOMAIN table THEN Some(table[power[1]])
        ELSE Some(table[POWER_RATINGS[Len(POWER_RATINGS)]])

\* Lookup, were an unlisted rating given the specification of the smallest one.
LookupOrDefault(cat, phase, power) ==
    LET table == IF phase = Some("single") THEN cat.single ELSE cat.three
    IN  IF power[1] \in DOMAIN table THEN Some(table[power[1]])
        ELSE Some(table[POWER_RATINGS[1]])


\* Lookup, were the three-phase table read whatever the phase.
LookupThreeOnly(cat, phase, power) == Get(cat.three, power[1])

Lookup(cat, phase, power) ==
    IF phase = Some("single")
    THEN Get(cat.single, power[1])
    ELSE Get(cat.three, power[1])

(***************************************************************************)
(* The summary of the load tab.  usage is the float                        *)
(* (total_watts / (capacity * 1000)) * 100, kept as the exact fraction     *)
(* num / den: for capacities 30..60 kW the two roundings of the float      *)
(* leave every comparison with 80 and with 100 as the exact one (0.8 * 100 *)
(* and 1.0 * 100 round to 80.0 and 100.0, and one watt more is far above   *)
(* one ulp).                                                               *)
(***************************************************************************)
\* SumWatts, were the quantity left out of the product.
RECURSIVE SumWattsOfOne(_)
SumWattsOfOne(ls) ==
    IF ls = <<>> THEN 0 ELSE Head(ls).watts + SumWattsOfOne(Tail(ls))

RECURSIVE SumWatts(_)
SumWatts(ls) ==
    IF ls = <<>> THEN 0
    ELSE Head(ls).watts * Head(ls).quantity + SumWatts(Tail(ls))

FALLBACK_CAPACITY == 30

\* Capacity, were the fallback taken whatever is selected.
CapacityOfFallback(power) == FALLBACK_CAPACITY

Capacity(power) == IF TruthyInt(power) THEN power[1] ELSE FALLBACK_CAPACITY

\* Usage, were the ratio taken per thousand.
UsagePerMille(total_watts, capacity) ==
    [num |-> total_watts * 1000, den |-> capacity * 1000]

\* usage = (total_watts / (capacity * 1000)) * 100, kept as a fraction.
Usage(total_watts, capacity) == [num |-> total_watts * 100, den |-> capacity * 1000]

\* UsageAbove, were the comparison >= in place of >.
UsageAtLeast(usage, percent) ==
    IF usage.den > 0 THEN usage.num >= percent * usage.den
    ELSE usage.num <= percent * usage.den


\* usage > percent, for usage = num/den; den is negative when the capacity is.
UsageAbove(usage, percent) ==
    IF usage.den > 0 THEN usage.num > percent * usage.den
    ELSE usage.num < percent * usage.den

Status(usage) ==
    IF UsageAbove(usage, 100) THEN "OVERLOADED"
    ELSE IF UsageAbove(usage, 80) THEN "HIGH LOAD"
    ELSE "SAFE"

LoadTab(ls, power) ==
    [kind |-> "load",
     rows |-> [i \in DOMAIN ls |->
                 [name |-> ls[i].name, watts |-> ls[i].watts * ls[i].quantity,
                  remove |-> ls[i].id]],
     total_watts |-> SumWatts(ls),
     capacity |-> Capacity(power),
     usage |-> Usage(SumWatts(ls), Capacity(power)),
     status |-> Status(Usage(SumWatts(ls), Capacity(power)))]

\* _build_specs_tab returns at once when there are no specs.
SpecsTab(specs) ==
    IF specs = None THEN [kind |-> "blank"] ELSE [kind |-> "specs", specs |-> specs[1]]

\* SafetyVars, were the variables made for the first category alone.
SafetyVarsOfFirstCategory(cv) ==
    [l \in { SAFETY_CHECKLIST[1].items[i] : i \in DOMAIN SAFETY_CHECKLIST[1].items }
       |-> IF l \in DOMAIN cv THEN cv[l] ELSE FALSE]

\* _build_safety_tab gives every label that has none yet a BooleanVar (False).
SafetyVars(cv) ==
    [l \in ChecklistLabels |-> IF l \in DOMAIN cv THEN cv[l] ELSE FALSE]

TABS == <<"specs", "load", "diagram", "safety", "report">>

TabNames == { TABS[i] : i \in DOMAIN TABS }

BuildTab(tab, phase, power, specs, ls) ==
    CASE tab = "specs" -> SpecsTab(specs)
      [] tab = "load" -> LoadTab(ls, power)
      [] tab = "diagram" -> [kind |-> "diagram", phase |-> phase]
      [] tab = "safety" -> [kind |-> "safety"]
      [] tab = "report" -> [kind |-> "report"]
      [] OTHER -> [kind |-> "blank"]

\* _switch_tab(tab), run with the selection, specs and ledger it finds.
switch_tab(tab, phase, power, specs, ls) ==
    /\ current_tab' = tab
    /\ tab_content' = BuildTab(tab, phase, power, specs, ls)
    /\ checklist_vars' = IF tab = "safety" THEN SafetyVars(checklist_vars)
                         ELSE checklist_vars

\* _update_specs, run with the selection the caller has just stored.
\* CatalogRead, were the entry popped from its table.
CatalogPopped(cat, phase, power) ==
    IF phase = Some("single")
    THEN [cat EXCEPT !.single = [k \in DOMAIN cat.single \ {power[1]} |-> cat.single[k]]]
    ELSE [cat EXCEPT !.three = [k \in DOMAIN cat.three \ {power[1]} |-> cat.three[k]]]

\* The tables after SINGLE_PHASE_SPECS.get / THREE_PHASE_SPECS.get, which
\* writes neither of them.
CatalogRead(cat, phase, power) == cat

update_specs(phase, power) ==
    /\ catalog' = CatalogRead(catalog, phase, power)
    /\ current_specs' = Lookup(catalog, phase, power)
    /\ results_visible' = TRUE
    /\ switch_tab("specs", phase, power, Lookup(catalog, phase, power), loads)

FIRST_LOAD_ID == 4

PROJECT_FIELDS ==
    {"project_name", "project_address", "contractor", "electrician", "license_number"}

Init ==
    /\ catalog = [single |-> SINGLE_PHASE_SPECS, three |-> THREE_PHASE_SPECS]
    /\ selected_phase = None
    /\ selected_power = None
    /\ current_specs = None
    /\ current_tab = "specs"
    /\ results_visible = FALSE
    /\ tab_content = [kind |-> "blank"]
    /\ loads = DEFAULT_LOADS
    /\ load_id = FIRST_LOAD_ID
    /\ dialog = FALSE
    /\ checklist_vars = <<>>
    /\ project_info = [f \in PROJECT_FIELDS |-> <<>>]
    /\ db = {}
    /\ files = <<>>
    /\ temp_files = 0
    /\ now = 0
    /\ rendered = {}
    /\ report_ids = <<>>
    /\ payload = None
    /\ issued = [i \in DOMAIN DEFAULT_LOADS |-> DEFAULT_LOADS[i].id]
    /\ last = [op |-> "init"]

\* The selection and what was resolved for it, for the history.
Selection == [phase |-> selected_phase, power |-> selected_power, specs |-> current_specs]

\* The main window takes no click while the modal dialog holds the grab.
MainWindow == dialog = FALSE

SelectPhase(phase) ==
    /\ MainWindow
    /\ selected_phase' = Some(phase)
    /\ IF TruthyInt(selected_power)
       THEN update_specs(Some(phase), selected_power)
       ELSE UNCHANGED <<catalog, current_specs, results_visible, current_tab,
                        tab_content, checklist_vars>>
    /\ last' = [op |-> "select_phase", phase |-> phase, before |-> Selection]
    /\ UNCHANGED <<selected_power, loads, load_id, dialog, issued, report_vars, payload>>

SelectPower(power) ==
    /\ MainWindow
    /\ selected_power' = Some(power)
    /\ IF TruthyStr(selected_phase)
       THEN update_specs(selected_phase, Some(power))
       ELSE UNCHANGED <<catalog, current_specs, results_visible, current_tab,
                        tab_content, checklist_vars>>
    /\ last' = [op |-> "select_power", power |-> power, before |-> Selection]
    /\ UNCHANGED <<selected_phase, loads, load_id, dialog, issued, report_vars, payload>>

\* A tab button; the tab bar is inside results_frame.
SwitchTab(tab) ==
    /\ MainWindow
    /\ results_visible
    /\ switch_tab(tab, selected_phase, selected_power, current_specs, loads)
    /\ last' = [op |-> "switch_tab", tab |-> tab]
    /\ UNCHANGED <<catalog, selected_phase, selected_power, current_specs,
                   results_visible, loads, load_id, dialog, issued, report_vars, payload>>

\* LoadsAfterReset, were the reset to seed the ledger with the defaults again.
LoadsReseeded(ls) == DEFAULT_LOADS

\* self.loads after _reset_selection, which does not name it.
LoadsAfterReset(ls) == ls

\* "Change Selection", a button of the banner inside results_frame.
ResetSelection ==
    /\ MainWindow
    /\ results_visible
    /\ selected_phase' = None
    /\ selected_power' = None
    /\ current_specs' = None
    /\ results_visible' = FALSE
    /\ loads' = LoadsAfterReset(loads)
    /\ last' = [op |-> "reset"]
    /\ UNCHANGED <<catalog, current_tab, tab_content, load_id, dialog,
                   checklist_vars, issued, report_vars, payload>>

\* "+ Add Load", a button of the load tab: _add_load opens the modal dialog.
AddLoad ==
    /\ MainWindow
    /\ results_visible
    /\ tab_content.kind = "load"
    /\ dialog' = TRUE
    /\ last' = [op |-> "add_load"]
    /\ UNCHANGED <<catalog, selected_phase, selected_power, current_specs, current_tab,
                   results_visible, tab_content, loads, load_id, checklist_vars, issued, report_vars, payload>>

\* NewLoad, were the id taken from the position in the ledger.
NewLoadByPosition(id, name, watts, qty) ==
    LET made == IntOrDefault(watts, 0)
        count == IntOrDefault(qty, 1)
    IN  IF made = None \/ count = None THEN None
        ELSE Some([id |-> Len(loads) + 1, name |-> StrOr(name, "New Load"),
                   watts |-> made[1], quantity |-> count[1]])

\* NewLoad, were a text that int() refuses taken as the default.
NewLoadCoerced(id, name, watts, qty) ==
    LET w == IntOrDefault(watts, 0)
        q == IntOrDefault(qty, 1)
    IN  Some([id |-> id, name |-> StrOr(name, "New Load"),
              watts |-> IF w = None THEN 0 ELSE w[1],
              quantity |-> IF q = None THEN 1 ELSE q[1]])

\* The dict that submit() builds; None when an int() raises ValueError.
NewLoad(id, name, watts, qty) ==
    LET w == IntOrDefault(watts, 0)
        q == IntOrDefault(qty, 1)
    IN  IF w = None \/ q = None THEN None
        ELSE Some([id |-> id, name |-> StrOr(name, "New Load"),
                   watts |-> w[1], quantity |-> q[1]])

\* NextLoadId, were the counter counting down.
PrevLoadId(id) == id - 1

\* self.load_id += 1
NextLoadId(id) == id + 1

\* self.loads.append(load): the same list, one entry longer.
AppendLoad(ls, load) == Append(ls, load)

\* The "Add" button of the dialog, with what the three entries hold.
Submit(name, watts, qty) ==
    /\ dialog = TRUE
    /\ LET new == NewLoad(load_id, name, watts, qty)
       IN  IF new = None
           THEN /\ last' = [op |-> "submit", name |-> name, watts |-> watts,
                            qty |-> qty, added |-> FALSE,
                            before |-> loads, id_before |-> load_id]
                /\ UNCHANGED <<loads, load_id, dialog, current_tab, tab_content,
                               checklist_vars, issued>>
           ELSE /\ loads' = AppendLoad(loads, new[1])
                /\ load_id' = NextLoadId(load_id)
                /\ issued' = Append(issued, new[1].id)
                /\ dialog' = FALSE
                /\ switch_tab("load", selected_phase, selected_power, current_specs,
                              AppendLoad(loads, new[1]))
                /\ last' = [op |-> "submit", name |-> name, watts |-> watts,
                            qty |-> qty, added |-> TRUE,
                            before |-> loads, id_before |-> load_id]
    /\ UNCHANGED <<catalog, selected_phase, selected_power, current_specs,
                   results_visible, report_vars, payload>>

\* The dialog's window is closed without "Add".
CloseDialog ==
    /\ dialog = TRUE
    /\ dialog' = FALSE
    /\ last' = [op |-> "close_dialog"]
    /\ UNCHANGED <<catalog, selected_phase, selected_power, current_specs, current_tab,
                   results_visible, tab_content, loads, load_id, checklist_vars, issued, report_vars, payload>>

\* WithoutId, were every entry up to the id dropped.
WithoutUpToId(ls, id) == SelectSeq(ls, LAMBDA l : l.id > id)

\* [l for l in self.loads if l["id"] != load_id]: a new list.
WithoutId(ls, id) == SelectSeq(ls, LAMBDA l : l.id # id)

(***************************************************************************)
(* The data dict of _save_report holds self.loads itself, not a copy.  The *)
(* history keeps, for the dict assembled last, whether its 'loads' entry   *)
(* is still the list object the ledger holds (shares_ledger_list) and, once*)
(* the ledger has moved on to a new list, what the old object holds        *)
(* (loads_kept).                                                           *)
(***************************************************************************)
Detached(pl, ls) ==
    IF pl # None /\ pl[1].shares_ledger_list
    THEN Some([pl[1] EXCEPT !.shares_ledger_list = FALSE, !.loads_kept = ls])
    ELSE pl

\* _remove_load(load_id)
RemoveLoad(id) ==
    /\ MainWindow
    /\ loads' = WithoutId(loads, id)
    /\ switch_tab("load", selected_phase, selected_power, current_specs,
                  WithoutId(loads, id))
    /\ payload' = Detached(payload, loads)
    /\ last' = [op |-> "remove_load", id |-> id, before |-> loads]
    /\ UNCHANGED <<catalog, selected_phase, selected_power, current_specs,
                   results_visible, load_id, dialog, issued, report_vars>>

\* The ids that have a "x" button on the load tab now.
RemoveButtons ==
    IF results_visible /\ tab_content.kind = "load"
    THEN { tab_content.rows[i].remove : i \in DOMAIN tab_content.rows }
    ELSE {}

\* A checkbox of the safety tab.
ToggleChecklist(item) ==
    /\ MainWindow
    /\ results_visible
    /\ tab_content.kind = "safety"
    /\ item \in DOMAIN checklist_vars
    /\ checklist_vars' = [checklist_vars EXCEPT ![item] = ~@]
    /\ last' = [op |-> "toggle", item |-> item]
    /\ UNCHANGED <<catalog, selected_phase, selected_power, current_specs, current_tab,
                   results_visible, tab_content, loads, load_id, dialog, issued,
                   report_vars, payload>>


\* An entry of the report tab is edited.
EditProjectInfo(field, text) ==
    /\ MainWindow
    /\ results_visible
    /\ tab_content.kind = "report"
    /\ project_info' = [project_info EXCEPT ![field] = text]
    /\ last' = [op |-> "edit", field |-> field]
    /\ UNCHANGED <<catalog, selected_phase, selected_power, current_specs, current_tab,
                   results_visible, tab_content, loads, load_id, dialog, checklist_vars,
                   issued, db, files, temp_files, now, rendered, report_ids, payload>>

(***************************************************************************)
(* _save_report and its collaborators.                                     *)
(***************************************************************************)
UNTITLED ==
    <<"U", "n", "t", "i", "t", "l", "e", "d", " ", "P", "r", "o", "j", "e", "c", "t">>

\* TextOr, were the text stripped before it is looked at and used.
TextOrStripped(text, fallback) == IF Strip(text) = <<>> THEN fallback ELSE Strip(text)

\* `text or fallback` for the text of an entry.
TextOr(text, fallback) == IF text = <<>> THEN fallback ELSE text

TICKS_PER_SECOND == 2

\* datetime.isoformat(): the reading of the clock as text, the second and
\* the fraction of it.
IsoFormat(t) == <<t \div TICKS_PER_SECOND, ".", t % TICKS_PER_SECOND>>

\* ReportId, were the id made from the reading cut to the second.
ReportIdBySecond(t) == <<"md5", <<t \div TICKS_PER_SECOND>> >>

\* hashlib.md5(datetime.now().isoformat().encode()).hexdigest()[:12]: the
\* digest of the text, taken as distinct for distinct texts.
ReportId(t) == <<"md5", IsoFormat(t)>>

\* str.isalnum() on the ASCII letters and digits.
AlnumChars ==
    {"0", "1", "2", "3", "4", "5", "6", "7", "8", "9",
     "a", "b", "c", "d", "e", "f", "g", "h", "i", "j", "k", "l", "m",
     "n", "o", "p", "q", "r", "s", "t", "u", "v", "w", "x", "y", "z",
     "A", "B", "C", "D", "E", "F", "G", "H", "I", "J", "K", "L", "M",
     "N", "O", "P", "Q", "R", "S", "T", "U", "V", "W", "X", "Y", "Z"}

SAFE_NAME_LENGTH == 40

\* "".join(c for c in name if c.isalnum() or c in ' -_').strip()[:40]
\*    .replace(' ', '_')
SafeName(name) ==
    LET kept == SelectSeq(name, LAMBDA c : c \in AlnumChars \cup {" ", "-", "_"})
        stripped == Strip(kept)
        cut == SubSeq(stripped, 1, IF Len(stripped) < SAFE_NAME_LENGTH
                                   THEN Len(stripped) ELSE SAFE_NAME_LENGTH)
    IN  [i \in DOMAIN cut |-> IF cut[i] = " " THEN "_" ELSE cut[i]]

\* strftime('%Y%m%d_%H%M%S'): the instant to the second.
Timestamp(t) == t \div TICKS_PER_SECOND

\* reports_dir / f"{safe_name}_{phase_type}_{power_rating}kW_{timestamp}.pdf"
PdfPath(project_name, phase_type, power_rating, t) ==
    <<SafeName(project_name), "_", phase_type, "_", power_rating, "kW_",
      Timestamp(t), ".pdf">>

\* json.dumps of the ledger list and of the checklist dict: the text, as the
\* sequence of its members in order.
JsonBool(b) == IF b THEN "true" ELSE "false"

DumpLoads(ls) ==
    [i \in DOMAIN ls |->
       << <<"id", ls[i].id>>, <<"name", ls[i].name>>, <<"watts", ls[i].watts>>,
          <<"quantity", ls[i].quantity>> >>]

DumpChecklist(cl) ==
    SelectSeq([i \in DOMAIN ChecklistItems |->
                 IF ChecklistItems[i] \in DOMAIN cl
                 THEN <<ChecklistItems[i], JsonBool(cl[ChecklistItems[i]])>>
                 ELSE <<>>],
              LAMBDA m : m # <<>>)

\* ReportData, were the notes to carry the time of the report.
ReportDataStamped(t) ==
    [report_id |-> ReportId(t),
     project_name |-> TextOr(project_info["project_name"], UNTITLED),
     project_address |-> project_info["project_address"],
     contractor |-> project_info["contractor"],
     electrician |-> project_info["electrician"],
     license_number |-> project_info["license_number"],
     phase_type |-> selected_phase[1],
     power_rating |-> selected_power[1],
     specs |-> [voltage |-> current_specs[1].voltage,
                amperage |-> current_specs[1].amperage,
                wire_gauge |-> current_specs[1].wire_gauge,
                neutral_wire |-> current_specs[1].neutral_wire,
                ground_wire |-> current_specs[1].ground_wire,
                conduit_size |-> current_specs[1].conduit_size,
                breaker_size |-> current_specs[1].breaker_size,
                receptacle |-> current_specs[1].receptacle],
     specs_notes |-> <<current_specs[1].notes, IsoFormat(t)>>,
     checklist |-> [k \in DOMAIN checklist_vars |-> checklist_vars[k]],
     shares_ledger_list |-> TRUE,
     loads_kept |-> <<>>]

\* The data dict, gathered at instant t.  Its 'loads' entry is the ledger's
\* own list: see Detached.
ReportData(t) ==
    [report_id |-> ReportId(t),
     project_name |-> TextOr(project_info["project_name"], UNTITLED),
     project_address |-> project_info["project_address"],
     contractor |-> project_info["contractor"],
     electrician |-> project_info["electrician"],
     license_number |-> project_info["license_number"],
     phase_type |-> selected_phase[1],
     power_rating |-> selected_power[1],
     specs |-> [voltage |-> current_specs[1].voltage,
                amperage |-> current_specs[1].amperage,
                wire_gauge |-> current_specs[1].wire_gauge,
                neutral_wire |-> current_specs[1].neutral_wire,
                ground_wire |-> current_specs[1].ground_wire,
                conduit_size |-> current_specs[1].conduit_size,
                breaker_size |-> current_specs[1].breaker_size,
                receptacle |-> current_specs[1].receptacle],
     specs_notes |-> current_specs[1].notes,
     checklist |-> [k \in DOMAIN checklist_vars |-> checklist_vars[k]],
     shares_ledger_list |-> TRUE,
     loads_kept |-> <<>>]

\* data['loads'] as a reader of the dict finds it now.
LoadsOf(pl) == IF pl.shares_ledger_list THEN loads ELSE pl.loads_kept

(***************************************************************************)
(* PDFReportGenerator.generate, by what the file system and the drawing    *)
(* libraries may do to it:                                                 *)
(*   early    an exception before the diagram step;                        *)
(*   diagram  _generate_diagram returns the temp file ("ok"), fails before *)
(*            NamedTemporaryFile ("failed"), or fails in img.save after    *)
(*            the temp file exists ("failed_after_temp");                  *)
(*   build    doc.build writes the document ("ok"), raises with the       *)
(*            destination untouched ("failed") or half written            *)
(*            ("failed_partial");                                         *)
(*   cleanup  os.remove of the temp file works or raises (and is passed). *)
(***************************************************************************)
GenerateOutcomes ==
    [early : {TRUE}, diagram : {"none"}, build : {"none"}, cleanup : {"none"}]
    \cup [early : {FALSE}, diagram : {"ok"}, build : {"ok", "failed", "failed_partial"},
          cleanup : {"removed", "kept"}]
    \cup [early : {FALSE}, diagram : {"failed", "failed_after_temp"},
          build : {"ok", "failed", "failed_partial"}, cleanup : {"none"}]

\* An exception inside the try block of generate.  What _generate_diagram
\* raises is caught there and comes back as None.
BodyRaises(o) == o.early \/ o.build \in {"failed", "failed_partial"}

\* Generate, were a diagram that cannot be drawn to abort the document.
GenerateAbortsOnDiagram(o) ==
    [ok |-> ~BodyRaises(o) /\ o.diagram = "ok",
     raised |-> FALSE,
     file |-> IF o.early \/ o.build = "failed" \/ o.diagram # "ok" THEN "untouched"
              ELSE IF o.build = "ok" THEN "complete" ELSE "partial",
     with_diagram |-> ~o.early /\ o.diagram = "ok",
     temp_left |-> IF o.diagram = "failed_after_temp"
                      \/ (o.diagram = "ok" /\ o.cleanup = "kept")
                   THEN 1 ELSE 0]

\* What generate returns and leaves behind.  `except Exception` turns what
\* the body raises into False, and the finally clause passes over a failing
\* os.remove, so nothing is raised to the caller.
Generate(o) ==
    [ok |-> ~BodyRaises(o),
     raised |-> FALSE,
     file |-> IF o.early \/ o.build = "failed" THEN "untouched"
              ELSE IF o.build = "ok" THEN "complete" ELSE "partial",
     with_diagram |-> ~o.early /\ o.diagram = "ok",
     temp_left |-> IF o.diagram = "failed_after_temp"
                      \/ (o.diagram = "ok" /\ o.cleanup = "kept")
                   THEN 1 ELSE 0]

\* SavedReport(...) as _save_report fills it.
ReportRow(data, pdf_path, t) ==
    [id |-> data.report_id,
     project_name |-> data.project_name,
     phase_type |-> data.phase_type,
     power_rating |-> data.power_rating,
     status |-> "completed",
     created_at |-> t,
     updated_at |-> t,
     project_address |-> data.project_address,
     contractor |-> data.contractor,
     electrician |-> data.electrician,
     license_number |-> data.license_number,
     custom_notes |-> <<>>,
     checklist_data |-> DumpChecklist(data.checklist),
     load_data |-> DumpLoads(LoadsOf(data)),
     pdf_path |-> pdf_path]

\* The ids of the rows of a table, the rows with an id, and the row with it.
IdsIn(table) == { r.id : r \in table }

RowsWithId(table, id) == { r \in table : r.id = id }

RowOf(table, id) == CHOOSE r \in table : r.id = id

\* InsertOrReplace, were the statement INSERT OR IGNORE: an existing row stays.
InsertOrIgnore(table, row) ==
    IF row.id \in IdsIn(table) THEN table ELSE table \cup {row}

\* INSERT OR REPLACE INTO reports, id TEXT PRIMARY KEY: the rows that hold
\* the new row's id are deleted and the new row is inserted.
InsertOrReplace(table, row) == (table \ RowsWithId(table, row.id)) \cup {row}

\* DatabaseManager.save_report: True and the table written, or False on
\* sqlite3.Error.
save_report(table, row, db_ok) == IF db_ok THEN InsertOrReplace(table, row) ELSE table

\* delete_report, were the WHERE clause left out.
DeleteEveryRow(table, report_id, db_ok) == IF db_ok THEN {} ELSE table

\* DatabaseManager.delete_report: DELETE FROM reports WHERE id = ?; True and
\* the table written whether or not a row was there, False on sqlite3.Error.
delete_report(table, report_id, db_ok) ==
    IF db_ok THEN table \ RowsWithId(table, report_id) ELSE table

\* OrderByUpdatedDesc, were the order ascending.
RECURSIVE OrderByUpdatedAsc(_)
OrderByUpdatedAsc(table) ==
    IF table = {} THEN { <<>> }
    ELSE UNION { { <<r>> \o rest : rest \in OrderByUpdatedAsc(table \ {r}) } :
                 r \in { m \in table : \A o \in table : m.updated_at <= o.updated_at } }

\* ORDER BY updated_at DESC: the orders the query may give the rows of the
\* table; rows of one updated_at come in an order SQLite does not fix.
RECURSIVE OrderByUpdatedDesc(_)
OrderByUpdatedDesc(table) ==
    IF table = {} THEN { <<>> }
    ELSE UNION { { <<r>> \o rest : rest \in OrderByUpdatedDesc(table \ {r}) } :
                 r \in { m \in table : \A o \in table : o.updated_at <= m.updated_at } }

\* LIMIT ?: the first rows of the result; a negative limit is no limit.
Limit(rows, limit) ==
    IF limit < 0 \/ limit >= Len(rows) THEN rows ELSE SubSeq(rows, 1, limit)

\* DatabaseManager.get_reports: the lists the call may return, [] alone on
\* sqlite3.Error.
get_reports(table, limit, db_ok) ==
    IF db_ok THEN { Limit(rows, limit) : rows \in OrderByUpdatedDesc(table) }
    ELSE { <<>> }

\* RecordAfterRender, were the result of generate not looked at.
RecordRegardless(ok, table, row, db_ok) == save_report(table, row, db_ok)

\* `if not self.pdf.generate(...): ... return`, and only then
\* self.db.save_report(report), whose result is dropped.
RecordAfterRender(ok, table, row, db_ok) ==
    IF ok THEN save_report(table, row, db_ok) ELSE table

\* A file of the reports directory is written.
WriteFile(fs, path, state) ==
    IF state = "untouched" THEN fs
    ELSE [k \in DOMAIN fs \cup {path} |-> IF k = path THEN state ELSE fs[k]]

\* ProjectInfoRead, were the placeholder written back to the entry.
ProjectInfoNormalised(info) ==
    [info EXCEPT !["project_name"] = TextOr(@, UNTITLED)]

\* self.project_info after _save_report: every StringVar is read with
\* .get() and none is set.
ProjectInfoRead(info) == info

\* History: the data dict of the save that ran immediately before this
\* handler, with the loads it held; None when another handler ran last.
JustAssembled ==
    IF last.op = "save_report" /\ last.assembled
    THEN Some([payload[1] EXCEPT !.loads_kept = LoadsOf(payload[1])])
    ELSE None

\* "Generate PDF" and Ctrl-S.  gen is what happens to generate, db_ok
\* whether sqlite takes the row, opened whether the viewer starts.
SaveReport(gen, db_ok, opened) ==
    /\ MainWindow
    /\ IF current_specs = None
       THEN /\ last' = [op |-> "save_report", assembled |-> FALSE, rendered |-> FALSE,
                        stored |-> FALSE, db_before |-> db, previous |-> None,
                        toasts |-> << <<"Please select a configuration first", "warning">> >>]
            /\ UNCHANGED <<db, files, temp_files, now, rendered, report_ids, payload>>
       ELSE LET data == ReportData(now)
                pdf_path == PdfPath(data.project_name, data.phase_type,
                                    data.power_rating, now)
                g == Generate(gen)
                row == ReportRow(data, pdf_path, now)
            IN  /\ payload' = Some(data)
                /\ report_ids' = Append(report_ids, data.report_id)
                /\ now' = now + 1
                /\ files' = WriteFile(files, pdf_path, g.file)
                /\ temp_files' = temp_files + g.temp_left
                /\ rendered' = IF g.ok THEN rendered \cup {pdf_path} ELSE rendered
                /\ db' = RecordAfterRender(g.ok, db, row, db_ok)
                /\ IF ~g.ok
                   THEN /\ last' = [op |-> "save_report", assembled |-> TRUE,
                                    rendered |-> FALSE, stored |-> FALSE,
                                    db_before |-> db, pdf_path |-> pdf_path,
                                    previous |-> JustAssembled, gen |-> gen, made |-> g,
                                    toasts |-> << <<"Generating PDF...", "info">>,
                                                  <<"Failed to generate PDF", "error">> >>]
                   ELSE /\ last' = [op |-> "save_report", assembled |-> TRUE,
                                    rendered |-> TRUE, stored |-> db_ok,
                                    db_before |-> db, pdf_path |-> pdf_path,
                                    previous |-> JustAssembled, gen |-> gen, made |-> g,
                                    toasts |-> << <<"Generating PDF...", "info">>,
                                                  <<"Report saved successfully!", "success">> >>
                                               \o IF opened THEN <<>>
                                                  ELSE << <<"Could not open PDF", "warning">> >>]
    /\ project_info' = ProjectInfoRead(project_info)
    /\ UNCHANGED <<catalog, selected_phase, selected_power, current_specs, current_tab,
                   results_visible, tab_content, loads, load_id, dialog, checklist_vars,
                   issued>>

(***************************************************************************)
(* The catalog and the selection: both phase cards, the power handler      *)
(* driven with every rating of a range around the five buttons, the tab    *)
(* bar and the reset.                                                      *)
(***************************************************************************)
Phases == {"single", "three"}

PowerButtons == { POWER_RATINGS[i] : i \in DOMAIN POWER_RATINGS }

ProbeLow == 29
ProbeHigh == 46

RatingProbes == (ProbeLow .. ProbeHigh) \cup PowerButtons

SelectProbedPower == \E p \in RatingProbes : SelectPower(p)

SelectAnyPhase == \E ph \in Phases : SelectPhase(ph)

SwitchAnyTab == \E t \in TabNames : SwitchTab(t)

NextCatalog ==
    \/ SelectAnyPhase
    \/ SelectProbedPower
    \/ SwitchAnyTab
    \/ ResetSelection

SpecCatalog == Init /\ [][NextCatalog]_vars

(***************************************************************************)
(* The ledger: one configuration is selected, the load tab opened, and the *)
(* dialog submitted with well-formed, blank, negative, zero and malformed  *)
(* entries.  _remove_load is driven with every id up to the counter,       *)
(* whether an entry holds it or not.                                       *)
(***************************************************************************)
MaxAdds == 2

AddInputs ==
    { [name |-> "Test", watts |-> <<"1", "0", "0", "0">>, qty |-> <<"2">>],
      [name |-> "", watts |-> <<>>, qty |-> <<>>],
      [name |-> "Negative", watts |-> <<"-", "5">>, qty |-> <<"1">>],
      [name |-> "None", watts |-> <<"1", "0", "0", "0">>, qty |-> <<"0">>],
      [name |-> "Padded", watts |-> <<" ", "1", "_", "0", "0", "0", " ">>, qty |-> <<"+", "3">>],
      [name |-> "Letters", watts |-> <<"a", "b", "c">>, qty |-> <<"1">>],
      [name |-> "Fraction", watts |-> <<"1", ".", "5">>, qty |-> <<"1">>],
      [name |-> "Blank qty", watts |-> <<"2", "0", "0", "0">>, qty |-> <<" ">>] }

LedgerPhases == {"single"}
LedgerPowers == {30}
LedgerTabs == {"specs", "load"}

SelectLedgerPhase == \E ph \in LedgerPhases : SelectPhase(ph)

SelectLedgerPower == \E p \in LedgerPowers : SelectPower(p)

SwitchLedgerTab == \E t \in LedgerTabs : SwitchTab(t)

OpenAddDialog == load_id < FIRST_LOAD_ID + MaxAdds /\ AddLoad

SubmitAny == \E in \in AddInputs : Submit(in.name, in.watts, in.qty)

RemoveAnyId ==
    /\ results_visible
    /\ tab_content.kind = "load"
    /\ \E id \in 1 .. load_id : RemoveLoad(id)

NextLedger ==
    \/ SelectLedgerPhase
    \/ SelectLedgerPower
    \/ SwitchLedgerTab
    \/ OpenAddDialog
    \/ SubmitAny
    \/ CloseDialog
    \/ RemoveAnyId

SpecLedger == Init /\ [][NextLedger]_vars

(***************************************************************************)
(* The usage band of the load tab as a function of the aggregate and the   *)
(* capacity: the ledger starts as one entry whose wattage is drawn from    *)
(* the band edges of every rating, as it is after the three default        *)
(* entries were removed and one was added; the selection and the tab bar   *)
(* then run.                                                               *)
(***************************************************************************)
WattProbes ==
    {0, 20000}
    \cup UNION { {800 * p - 1, 800 * p, 800 * p + 1,
                  1000 * p - 1, 1000 * p, 1000 * p + 1} : p \in PowerButtons }

InitClassify ==
    /\ catalog = [single |-> SINGLE_PHASE_SPECS, three |-> THREE_PHASE_SPECS]
    /\ selected_phase = None
    /\ selected_power = None
    /\ current_specs = None
    /\ current_tab = "specs"
    /\ results_visible = FALSE
    /\ tab_content = [kind |-> "blank"]
    /\ \E w \in WattProbes :
         loads = << [id |-> FIRST_LOAD_ID, name |-> "New Load", watts |-> w,
                     quantity |-> 1] >>
    /\ load_id = NextLoadId(FIRST_LOAD_ID)
    /\ dialog = FALSE
    /\ checklist_vars = <<>>
    /\ project_info = [f \in PROJECT_FIELDS |-> <<>>]
    /\ db = {}
    /\ files = <<>>
    /\ temp_files = 0
    /\ now = 0
    /\ rendered = {}
    /\ report_ids = <<>>
    /\ payload = None
    /\ issued = [i \in DOMAIN DEFAULT_LOADS |-> DEFAULT_LOADS[i].id] \o <<FIRST_LOAD_ID>>
    /\ last = [op |-> "probe"]

SelectButtonPower == \E p \in PowerButtons : SelectPower(p)

NextClassify ==
    \/ SelectAnyPhase
    \/ SelectButtonPower
    \/ SwitchAnyTab
    \/ ResetSelection

SpecClassify == InitClassify /\ [][NextClassify]_vars

(***************************************************************************)
(* The whole window: a configuration is selected, the load and the safety  *)
(* tab visited, the ledger and the checklist edited, and the report of an  *)
(* unnamed project saved, with the renderer and sqlite working or failing. *)
(***************************************************************************)
MaxSaves == 2

ReportPhases == {"three"}
ReportPowers == {50}
ReportAddInputs == { [name |-> "Test", watts |-> <<"1", "0", "0", "0">>, qty |-> <<"2">>] }
ReportToggles == {ChecklistItems[1]}
ReportTabs == {"load", "safety"}
ReportRemovals == {1}

\* The dialog is opened for the first entry after the defaults.
ReportAddIds == {FIRST_LOAD_ID}

\* The render goes through, or fails with the document half written and the
\* diagram's temp file left behind.
ReportOutcomes ==
    { [early |-> FALSE, diagram |-> "ok", build |-> "ok", cleanup |-> "removed"],
      [early |-> FALSE, diagram |-> "failed_after_temp", build |-> "failed_partial",
       cleanup |-> "none"] }

SelectReportPhase == \E ph \in ReportPhases : SelectPhase(ph)

SelectReportPower == \E p \in ReportPowers : SelectPower(p)

OpenReportAddDialog == load_id \in ReportAddIds /\ AddLoad

SubmitReportLoad == \E in \in ReportAddInputs : Submit(in.name, in.watts, in.qty)

SwitchReportTab == \E t \in ReportTabs : SwitchTab(t)

ClickRemove == \E id \in RemoveButtons \cap ReportRemovals : RemoveLoad(id)

ToggleAny == \E item \in ReportToggles : ToggleChecklist(item)

SaveAnyReport ==
    /\ now < MaxSaves
    /\ \E gen \in ReportOutcomes, db_ok \in BOOLEAN : SaveReport(gen, db_ok, TRUE)

Next ==
    \/ SelectReportPhase
    \/ SelectReportPower
    \/ SwitchReportTab
    \/ OpenReportAddDialog
    \/ SubmitReportLoad
    \/ CloseDialog
    \/ ClickRemove
    \/ ToggleAny
    \/ SaveAnyReport

Spec == Init /\ [][Next]_vars

(***************************************************************************)
(* The save handler alone: a listed or an unlisted rating is selected, or  *)
(* the selection reset, and the report saved with every outcome of         *)
(* generate, of sqlite and of the viewer.                                  *)
(***************************************************************************)
RenderPhases == {"three"}
RenderPowers == {50, 45}

SelectRenderPhase == \E ph \in RenderPhases : SelectPhase(ph)

SelectRenderPower == \E p \in RenderPowers : SelectPower(p)

SaveEveryOutcome ==
    /\ now < MaxSaves
    /\ \E gen \in GenerateOutcomes, db_ok \in BOOLEAN, opened \in BOOLEAN :
         SaveReport(gen, db_ok, opened)

NextRender ==
    \/ SelectRenderPhase
    \/ SelectRenderPower
    \/ ResetSelection
    \/ SaveEveryOutcome

SpecRender == Init /\ [][NextRender]_vars

(***************************************************************************)
(* The project name: the entry of the report tab left blank, filled with   *)
(* blanks only or with a name that has blanks around it, the checklist     *)
(* ticked, and the report saved.                                           *)
(***************************************************************************)
NameInputs ==
    { <<>>, <<" ", " ">>, <<" ", "J", "o", "b", " ", "#", "1", " ">> }

NameTabs == {"report", "safety"}

SwitchNameTab == \E t \in NameTabs : SwitchTab(t)

EditProjectName == \E text \in NameInputs : EditProjectInfo("project_name", text)

SaveNamedReport ==
    /\ now < MaxSaves
    /\ \E gen \in ReportOutcomes, db_ok \in BOOLEAN : SaveReport(gen, db_ok, TRUE)

NextNames ==
    \/ SelectReportPhase
    \/ SelectReportPower
    \/ SwitchNameTab
    \/ EditProjectName
    \/ ToggleAny
    \/ SaveNamedReport

SpecNames == Init /\ [][NextNames]_vars

(***************************************************************************)
(* The capacity of the load tab: _select_power driven with a negative      *)
(* rating, with zero and with a listed one, the load tab opened and the    *)
(* default loads removed.                                                  *)
(***************************************************************************)
CapacityPhases == {"single"}
CapacityPowers == {-5, 0, 30}
CapacityTabs == {"specs", "load"}

SelectCapacityPhase == \E ph \in CapacityPhases : SelectPhase(ph)

SelectCapacityPower == \E p \in CapacityPowers : SelectPower(p)

SwitchCapacityTab == \E t \in CapacityTabs : SwitchTab(t)

ClickAnyRemove == \E id \in RemoveButtons : RemoveLoad(id)

NextCapacity ==
    \/ SelectCapacityPhase
    \/ SelectCapacityPower
    \/ SwitchCapacityTab
    \/ ClickAnyRemove

SpecCapacity == Init /\ [][NextCapacity]_vars


(***************************************************************************)
(* The record store driven call by call, next to the saves of the window.  *)
(***************************************************************************)

\* SavedReport(...) with the defaults of the dataclass for the fields after
\* updated_at.
SavedReport(id, project_name, phase_type, power_rating, status, created_at, updated_at) ==
    [id |-> id,
     project_name |-> project_name,
     phase_type |-> phase_type,
     power_rating |-> power_rating,
     status |-> status,
     created_at |-> created_at,
     updated_at |-> updated_at,
     project_address |-> <<>>,
     contractor |-> <<>>,
     electrician |-> <<>>,
     license_number |-> <<>>,
     custom_notes |-> <<>>,
     checklist_data |-> <<>>,
     load_data |-> <<>>,
     pdf_path |-> <<>>]

\* save_report called on the manager, the row the caller's.
DbSaveReport(row, db_ok) ==
    /\ db' = save_report(db, row, db_ok)
    /\ last' = [op |-> "db_save_report", row |-> row, ok |-> db_ok, db_before |-> db]
    /\ UNCHANGED <<catalog, selected_phase, selected_power, current_specs, current_tab,
                   results_visible, tab_content, loads, load_id, dialog, checklist_vars,
                   project_info, files, temp_files, now, rendered, report_ids, payload,
                   issued>>

\* delete_report called on the manager.
DbDeleteReport(report_id, db_ok) ==
    /\ db' = delete_report(db, report_id, db_ok)
    /\ last' = [op |-> "db_delete_report", id |-> report_id, ok |-> db_ok,
                db_before |-> db]
    /\ UNCHANGED <<catalog, selected_phase, selected_power, current_specs, current_tab,
                   results_visible, tab_content, loads, load_id, dialog, checklist_vars,
                   project_info, files, temp_files, now, rendered, report_ids, payload,
                   issued>>

\* get_reports called on the manager; the list returned is kept in last.
DbGetReports(limit, db_ok) ==
    /\ \E result \in get_reports(db, limit, db_ok) :
         last' = [op |-> "db_get_reports", limit |-> limit, ok |-> db_ok,
                  result |-> result, db_before |-> db]
    /\ UNCHANGED <<catalog, selected_phase, selected_power, current_specs, current_tab,
                   results_visible, tab_content, loads, load_id, dialog, checklist_vars,
                   project_info, db, files, temp_files, now, rendered, report_ids, payload,
                   issued>>

StoreIdTicks == 0 .. 2

StoreTimes == 0 .. 1

StoreRows ==
    { SavedReport(ReportId(k), UNTITLED, "three", 50, "completed", 0, t) :
        k \in StoreIdTicks, t \in StoreTimes }

StoreLimits == {-1, 0, 1, 2, 20, 50}

StorePhases == {"three"}

StorePowers == {50}

SelectStorePhase == \E ph \in StorePhases : SelectPhase(ph)

SelectStorePower == \E p \in StorePowers : SelectPower(p)

SaveStoreReport ==
    /\ now < MaxSaves
    /\ \E db_ok \in BOOLEAN :
         SaveReport([early |-> FALSE, diagram |-> "ok", build |-> "ok",
                     cleanup |-> "removed"], db_ok, TRUE)

SaveAnyRow == \E row \in StoreRows, db_ok \in BOOLEAN : DbSaveReport(row, db_ok)

DeleteAnyReport ==
    \E k \in StoreIdTicks, db_ok \in BOOLEAN : DbDeleteReport(ReportId(k), db_ok)

ListReports == \E limit \in StoreLimits, db_ok \in BOOLEAN : DbGetReports(limit, db_ok)

NextStore ==
    \/ SelectStorePhase
    \/ SelectStorePower
    \/ SaveStoreReport
    \/ SaveAnyRow
    \/ DeleteAnyReport
    \/ ListReports

SpecStore == Init /\ [][NextStore]_vars


(***************************************************************************)
(* A session of the window: the selection and its reset, the tabs, the     *)
(* ledger, the checklist and the saves.                                    *)
(***************************************************************************)

SessionTabs == TabNames

SwitchSessionTab == \E t \in SessionTabs : SwitchTab(t)

NextSession ==
    \/ SelectReportPhase
    \/ SelectReportPower
    \/ ResetSelection
    \/ SwitchSessionTab
    \/ OpenReportAddDialog
    \/ SubmitReportLoad
    \/ CloseDialog
    \/ ClickRemove
    \/ ToggleAny
    \/ SaveAnyReport

SpecSession == Init /\ [][NextSession]_vars

(***************************************************************************)
(* The load tab as the window lets it be reached: the two phase cards, the *)
(* five power buttons, the tabs, the reset, the add dialog and the remove  *)
(* buttons.                                                                *)
(***************************************************************************)

LoadViewAddInputs ==
    { [name |-> "Test", watts |-> <<"1", "0", "0", "0">>, qty |-> <<"2">>],
      [name |-> "Letters", watts |-> <<"a", "b", "c">>, qty |-> <<"1">>] }

LoadViewTabs == {"specs", "load"}

SelectCardPhase == \E ph \in Phases : SelectPhase(ph)

SelectButtonRating == \E p \in PowerButtons : SelectPower(p)

SwitchLoadViewTab == \E t \in LoadViewTabs : SwitchTab(t)

SubmitLoadViewInput == \E in \in LoadViewAddInputs : Submit(in.name, in.watts, in.qty)

NextLoadView ==
    \/ SelectCardPhase
    \/ SelectButtonRating
    \/ ResetSelection
    \/ SwitchLoadViewTab
    \/ OpenReportAddDialog
    \/ SubmitLoadViewInput
    \/ CloseDialog
    \/ ClickAnyRemove

SpecLoadView == Init /\ [][NextLoadView]_vars


(***************************************************************************)
(* Properties.                                                             *)
(***************************************************************************)

\* The ids of the entries of a ledger, and its aggregate counted from the
\* last entry backwards.
IdsOf(ls) == { ls[i].id : i \in DOMAIN ls }

RECURSIVE WattsUpTo(_, _)
WattsUpTo(ls, n) ==
    IF n = 0 THEN 0 ELSE WattsUpTo(ls, n - 1) + ls[n].quantity * ls[n].watts

AggregateWatts(ls) == WattsUpTo(ls, Len(ls))

LoadTabShown == results_visible /\ tab_content.kind = "load"

\* C3: for capacity C kW and aggregate A watts the load tab shows OVERLOADED
\* iff A > 1000*C, HIGH LOAD iff 800*C < A <= 1000*C and SAFE iff A <= 800*C;
\* at 30 kW, 24000 W is SAFE, 24001 W and 30000 W are HIGH LOAD and 30001 W
\* is OVERLOADED.
C3_UsageBands ==
    LoadTabShown =>
        LET A == AggregateWatts(loads)
            C == selected_power[1]
            shown == tab_content.status
        IN  /\ tab_content.total_watts = A
            /\ tab_content.capacity = C
            /\ (shown = "OVERLOADED") <=> (A > 1000 * C)
            /\ (shown = "HIGH LOAD") <=> (800 * C < A /\ A <= 1000 * C)
            /\ (shown = "SAFE") <=> (A <= 800 * C)
            /\ (C = 30 /\ A = 24000) => shown = "SAFE"
            /\ (C = 30 /\ A = 24001) => shown = "HIGH LOAD"
            /\ (C = 30 /\ A = 30000) => shown = "HIGH LOAD"
            /\ (C = 30 /\ A = 30001) => shown = "OVERLOADED"

\* C3 witness: the load tab shows exactly 30000 W against 30 kW as HIGH LOAD.
C3_Witness ==
    /\ LoadTabShown
    /\ selected_power = Some(30)
    /\ AggregateWatts(loads) = 30000
    /\ tab_content.status = "HIGH LOAD"

\* C4: a successful add gives the new entry an id greater than every id
\* given before in this ledger (removed entries and the defaults 1..3
\* included) and appends it, the existing entries and their order unchanged.
C4_AddIdsMonotonic ==
    /\ \A i, j \in DOMAIN issued : i < j => issued[i] < issued[j]
    /\ \A i \in DOMAIN DEFAULT_LOADS : issued[i] = i
    /\ (last.op = "submit" /\ last.added) =>
          /\ Len(loads) = Len(last.before) + 1
          /\ SubSeq(loads, 1, Len(last.before)) = last.before
          /\ loads[Len(loads)].id = issued[Len(issued)]
          /\ \A i \in 1 .. Len(issued) - 1 : loads[Len(loads)].id > issued[i]

\* C4 witness: an entry was added after an earlier added entry was removed.
C4_Witness ==
    /\ last.op = "submit"
    /\ last.added
    /\ Len(issued) = Len(DEFAULT_LOADS) + 2
    /\ issued[Len(issued) - 1] \notin IdsOf(loads)
    /\ Len(last.before) < Len(DEFAULT_LOADS)

\* C5: after any adds and removes the ids in the ledger are pairwise
\* distinct, and a new ledger holds exactly the three default loads.
C5_IdsDistinct ==
    /\ \A i, j \in DOMAIN loads : i # j => loads[i].id # loads[j].id
    /\ last.op = "init" =>
          /\ Len(loads) = 3
          /\ loads[1] = [id |-> 1, name |-> "X-Ray Tube", watts |-> 15000, quantity |-> 1]
          /\ loads[2] = [id |-> 2, name |-> "Image Processor", watts |-> 3000, quantity |-> 1]
          /\ loads[3] = [id |-> 3, name |-> "Room HVAC", watts |-> 2000, quantity |-> 1]

\* C5 witness: two added entries stand beside a default one after a removal.
C5_Witness ==
    /\ Len(loads) >= 3
    /\ Len(issued) = Len(DEFAULT_LOADS) + 2
    /\ {issued[Len(issued)], issued[Len(issued) - 1]} \subseteq IdsOf(loads)
    /\ \E i \in DOMAIN DEFAULT_LOADS : DEFAULT_LOADS[i].id \notin IdsOf(loads)

\* What the ledger contract rejects: a wattage or quantity that is no
\* integer (blank included), a negative wattage, a quantity below one.
InvalidInput(watts, qty) ==
    \/ PyInt(watts) = None
    \/ PyInt(qty) = None
    \/ PyInt(watts)[1] < 0
    \/ PyInt(qty)[1] < 1

\* C6: an add with wattage < 0, quantity < 1 or a field that is no integer
\* (blank included) is rejected and adds no load.
C6_InvalidAddRejected ==
    (last.op = "submit" /\ InvalidInput(last.watts, last.qty)) =>
        (~last.added /\ loads = last.before)

\* C7: the aggregate shown equals the sum of wattage x quantity over the
\* loads in the ledger (0 when empty); add(name, w, q) raises it by w*q, and
\* removing that entry by id brings it back.
C7_Aggregate ==
    /\ LoadTabShown => tab_content.total_watts = AggregateWatts(loads)
    /\ (LoadTabShown /\ loads = <<>>) => tab_content.total_watts = 0
    /\ (last.op = "submit" /\ last.added) =>
          /\ AggregateWatts(loads)
               = AggregateWatts(last.before)
                 + IntOrDefault(last.watts, 0)[1] * IntOrDefault(last.qty, 1)[1]
          /\ AggregateWatts(WithoutId(loads, last.id_before))
               = AggregateWatts(last.before)
    /\ last.op = "remove_load" =>
          AggregateWatts(last.before)
            = AggregateWatts(loads)
              + AggregateWatts(SelectSeq(last.before, LAMBDA l : l.id = last.id))

\* C7 witness: add("Test", 1000, 2) has just raised the shown aggregate of
\* the default ledger from 20000 to 22000.
C7_Witness ==
    /\ last.op = "submit"
    /\ last.added
    /\ last.name = "Test"
    /\ AggregateWatts(last.before) = 20000
    /\ LoadTabShown
    /\ tab_content.total_watts = 22000

\* C8: remove(id) removes exactly the entry with that id and keeps the
\* others in order; with no such entry the ledger is unchanged, so removing
\* twice is removing once.
C8_RemoveExact ==
    last.op = "remove_load" =>
        /\ IF last.id \in IdsOf(last.before)
           THEN \E k \in DOMAIN last.before :
                   /\ last.before[k].id = last.id
                   /\ loads = SubSeq(last.before, 1, k - 1)
                              \o SubSeq(last.before, k + 1, Len(last.before))
           ELSE loads = last.before
        /\ WithoutId(loads, last.id) = loads

\* C8 witness: a remove of an id that an earlier remove already took out
\* left the ledger as it was.
C8_Witness ==
    /\ last.op = "remove_load"
    /\ last.id \in IdsOf(DEFAULT_LOADS)
    /\ last.id \notin IdsOf(last.before)
    /\ loads = last.before
    /\ loads # <<>>

\* C9: for each of the 10 (phase, rating) pairs the lookup returns a
\* specification, and looking the same pair up again returns an equal one.
C9_LookupTotal ==
    /\ \A ph \in {"single", "three"}, p \in {30, 32, 40, 50, 60} :
          /\ Lookup(catalog, Some(ph), Some(p)) # None
          /\ (selected_phase = Some(ph) /\ selected_power = Some(p)) =>
                /\ current_specs # None
                /\ current_specs = Lookup(catalog, Some(ph), Some(p))
    /\ ( /\ last.op \in {"select_phase", "select_power"}
         /\ last.before.phase = selected_phase
         /\ last.before.power = selected_power
         /\ last.before.specs # None ) => current_specs = last.before.specs

\* C9 witness: the pair (three, 60) was selected again and resolved again.
C9_Witness ==
    /\ last.op = "select_phase"
    /\ last.before.phase = Some("three")
    /\ selected_phase = Some("three")
    /\ selected_power = Some(60)
    /\ last.before.power = Some(60)
    /\ current_specs # None
    /\ current_specs[1].amperage = "167A @ 208V / 72A @ 480V"

\* C10: a rating outside {30, 32, 40, 50, 60} resolves to no specification
\* (the not-found result), never to a default or interpolated one.
C10_UnlistedRating ==
    /\ \A ph \in {"single", "three"}, p \in RatingProbes \ {30, 32, 40, 50, 60} :
          Lookup(catalog, Some(ph), Some(p)) = None
    /\ ( /\ selected_phase # None
         /\ selected_power # None
         /\ selected_power[1] \notin {30, 32, 40, 50, 60} ) => current_specs = None

\* C10 witness: (single, 33) and (three, 45) were looked up and found nothing.
C10_Witness ==
    /\ current_specs = None
    /\ results_visible
    /\ \/ selected_phase = Some("single") /\ selected_power = Some(33)
       \/ selected_phase = Some("three") /\ selected_power = Some(45)

PayloadLoads == IF payload = None THEN <<>> ELSE LoadsOf(payload[1])

PayloadChecklist == IF payload = None THEN <<>> ELSE payload[1].checklist

Resolvable ==
    /\ selected_phase \in {Some("single"), Some("three")}
    /\ selected_power \in {Some(30), Some(32), Some(40), Some(50), Some(60)}

\* C11: a save while the selection resolves to no specification assembles
\* nothing with a fallback specification: no payload, no file, no temporary
\* file and no record come of it, only the warning.
C11_UnresolvedSaveDoesNothing ==
    [][ (last'.op = "save_report" /\ ~Resolvable)
          => /\ ~last'.assembled
             /\ last'.toasts = << <<"Please select a configuration first", "warning">> >>
             /\ payload' = payload
             /\ files' = files
             /\ temp_files' = temp_files
             /\ rendered' = rendered
             /\ db' = db ]_vars

\* C11 witness: after a report was stored, (three, 45) was selected and the
\* save refused.
C11_Witness ==
    /\ last.op = "save_report"
    /\ ~last.assembled
    /\ selected_phase = Some("three")
    /\ selected_power = Some(45)
    /\ current_specs = None
    /\ db # {}
    /\ db = last.db_before

\* C12: when the document was rendered and the reports table refused the
\* row, the user is not told that the report was saved: the outcome shown is
\* neither the success nor the render failure.
C12_StoreFailureReported ==
    (last.op = "save_report" /\ last.rendered /\ ~last.stored) =>
        \A i \in DOMAIN last.toasts :
            /\ last.toasts[i] # <<"Report saved successfully!", "success">>
            /\ last.toasts[i] # <<"Failed to generate PDF", "error">>

\* C13: when generate has returned, no temporary diagram file that it or
\* _generate_diagram created is left, whichever step failed.
C13_NoTempFileLeft ==
    /\ temp_files = 0
    /\ (last.op = "save_report" /\ last.assembled) => last.made.temp_left = 0

\* C14: generate raises nothing to its caller and returns True or False;
\* when the diagram cannot be drawn and the rest can, the document is built
\* without the diagram and generate returns True.
C14_RendererDegrades ==
    (last.op = "save_report" /\ last.assembled) =>
        /\ ~last.made.raised
        /\ last.made.ok \in BOOLEAN
        /\ last.rendered = last.made.ok
        /\ (last.gen.diagram \in {"failed", "failed_after_temp"} /\ last.gen.build = "ok")
              => /\ last.rendered
                 /\ ~last.made.with_diagram
                 /\ last.pdf_path \in DOMAIN files
                 /\ files[last.pdf_path] = "complete"

\* C14 witness: the diagram step failed before any temp file, the document
\* was built all the same and generate returned True.
C14_Witness ==
    /\ last.op = "save_report"
    /\ last.assembled
    /\ last.gen.diagram = "failed"
    /\ last.gen.build = "ok"
    /\ last.rendered
    /\ ~last.made.with_diagram
    /\ files[last.pdf_path] = "complete"

NameEntry == project_info["project_name"]

\* C16: two saves in a row, nothing changed between them, assemble data
\* with the same specification, the same project fields, checklist and
\* loads; only the report id differs.
C16_AssemblyRepeatable ==
    (last.op = "save_report" /\ last.assembled /\ last.previous # None) =>
        LET a == last.previous[1]
            b == payload[1]
        IN  /\ a.specs = b.specs
            /\ a.specs_notes = b.specs_notes
            /\ a.phase_type = b.phase_type
            /\ a.power_rating = b.power_rating
            /\ a.project_name = b.project_name
            /\ a.project_address = b.project_address
            /\ a.contractor = b.contractor
            /\ a.electrician = b.electrician
            /\ a.license_number = b.license_number
            /\ a.checklist = b.checklist
            /\ a.loads_kept = LoadsOf(b)
            /\ a.report_id # b.report_id

\* C16 witness: a named report with a ticked checklist was saved twice in a
\* row.
C16_Witness ==
    /\ last.op = "save_report"
    /\ last.assembled
    /\ last.previous # None
    /\ NameEntry = <<" ", "J", "o", "b", " ", "#", "1", " ">>
    /\ \E k \in DOMAIN payload[1].checklist : payload[1].checklist[k]
    /\ Len(LoadsOf(payload[1])) = 3

\* C17: with the project-name entry empty the data and the stored record
\* carry "Untitled Project"; with a non-empty entry they carry its text as
\* it stands.
C17_ProjectName ==
    (last.op = "save_report" /\ last.assembled) =>
        /\ NameEntry = <<>> => payload[1].project_name = UNTITLED
        /\ NameEntry # <<>> => payload[1].project_name = NameEntry
        /\ last.stored =>
              /\ payload[1].report_id \in IdsIn(db)
              /\ RowOf(db, payload[1].report_id).project_name = payload[1].project_name

\* C17 witness: the name " Job #1 ", blanks around it, went into the data
\* and the stored record unchanged.
C17_Witness ==
    /\ last.op = "save_report"
    /\ last.stored
    /\ NameEntry = <<" ", "J", "o", "b", " ", "#", "1", " ">>
    /\ payload[1].project_name = NameEntry
    /\ RowOf(db, payload[1].report_id).project_name = NameEntry

\* C18: with nothing but whitespace in the project-name entry the data
\* carries "Untitled Project", as for an empty entry.
C18_BlankNamePlaceholder ==
    (last.op = "save_report" /\ last.assembled /\ Strip(NameEntry) = <<>>) =>
        payload[1].project_name = UNTITLED

\* C19: a save leaves what it reads as it was: the ledger and its counter,
\* the checklist, the selection and the project entries; the placeholder
\* name is in the data only, never in the entry.
C19_AssemblyReadsOnly ==
    [][ last'.op = "save_report"
          => /\ loads' = loads
             /\ load_id' = load_id
             /\ checklist_vars' = checklist_vars
             /\ selected_phase' = selected_phase
             /\ selected_power' = selected_power
             /\ current_specs' = current_specs
             /\ project_info' = project_info ]_vars

\* C19 witness: a save with the entry empty put the placeholder into the
\* data and left the entry empty.
C19_Witness ==
    /\ last.op = "save_report"
    /\ last.assembled
    /\ payload[1].project_name = UNTITLED
    /\ NameEntry = <<>>
    /\ \E k \in DOMAIN checklist_vars : checklist_vars[k]

C21_SaveIsUpsert ==
    /\ \A r1 \in db : \A r2 \in db : r1.id = r2.id => r1 = r2
    /\ (last.op = "db_save_report" /\ last.ok)
         => /\ RowsWithId(db, last.row.id) = {last.row}
            /\ db \ RowsWithId(db, last.row.id)
                 = last.db_before \ RowsWithId(last.db_before, last.row.id)

\* A save over a stored id with a different record, another id being stored.
C21_Witness ==
    /\ last.op = "db_save_report"
    /\ last.ok
    /\ last.row.id \in IdsIn(last.db_before)
    /\ last.row \notin last.db_before
    /\ IdsIn(db) # {last.row.id}

\* C22: a delete that succeeded leaves no record under the id it was given
\* and leaves the store as it was when the id was not stored, so that a
\* second delete of the id changes nothing; and an id leaves the store in no
\* step other than a delete called with that id.
C22_OnlyDeleteRemoves ==
    [][ /\ (last'.op = "db_delete_report" /\ last'.ok)
             => /\ last'.id \notin IdsIn(db')
                /\ (last'.id \notin IdsIn(db) => db' = db)
        /\ \A id \in IdsIn(db) \ IdsIn(db') :
             last'.op = "db_delete_report" /\ last'.id = id ]_vars

\* A delete that took a stored record away and left another one.
C22_Witness ==
    /\ last.op = "db_delete_report"
    /\ last.ok
    /\ last.id \in IdsIn(last.db_before)
    /\ db # {}

\* C23: a list asked with a limit that is a count returns no more records
\* than the limit, the later updated_at before the earlier, and every record
\* it returns is a record of the store at the time of the call.
C23_ListNewestFirst ==
    (last.op = "db_get_reports" /\ last.limit >= 0)
      => /\ Len(last.result) <= last.limit
         /\ \A i \in DOMAIN last.result : \A j \in DOMAIN last.result :
              i < j => last.result[i].updated_at >= last.result[j].updated_at
         /\ \A i \in DOMAIN last.result : last.result[i] \in db

\* Three records stored, two asked for, and the two differ in updated_at.
C23_Witness ==
    /\ last.op = "db_get_reports"
    /\ last.ok
    /\ last.limit = 2
    /\ Cardinality(db) = 3
    /\ Len(last.result) = 2
    /\ last.result[1].updated_at > last.result[2].updated_at

\* C24: whatever selections, resets, tab renders, ledger operations,
\* checklist toggles and saves came before, the two tables of the catalog
\* hold the entries they held at the start, under the same ratings.
C24_CatalogNeverMutated ==
    /\ catalog = [single |-> SINGLE_PHASE_SPECS, three |-> THREE_PHASE_SPECS]
    /\ DOMAIN catalog.single = { POWER_RATINGS[i] : i \in DOMAIN POWER_RATINGS }
    /\ DOMAIN catalog.three = { POWER_RATINGS[i] : i \in DOMAIN POWER_RATINGS }

\* A reset after a save, an added load and an opened checklist.
C24_Witness ==
    /\ last.op = "reset"
    /\ now > 0
    /\ db # {}
    /\ load_id > FIRST_LOAD_ID
    /\ checklist_vars # <<>>

\* C25: Three-phase with 50 kW resolves to the entry with voltage
\* "208V/480V", amperage "139A @ 208V / 60A @ 480V", hot wire gauge
\* "1/0 AWG Copper (208V) / 4 AWG Copper (480V)" and breaker size
\* "175A (208V) / 80A (480V)"; with the default loads untouched the load
\* tab then shows 20000 W, a usage of 40 % of 50 kW, and SAFE.
C25_ThreePhase50 ==
    (selected_phase = Some("three") /\ selected_power = Some(50))
      => /\ current_specs # None
         /\ current_specs[1].voltage = "208V/480V"
         /\ current_specs[1].amperage = "139A @ 208V / 60A @ 480V"
         /\ current_specs[1].wire_gauge = "1/0 AWG Copper (208V) / 4 AWG Copper (480V)"
         /\ current_specs[1].breaker_size = "175A (208V) / 80A (480V)"
         /\ (LoadTabShown /\ loads = DEFAULT_LOADS)
              => /\ tab_content.total_watts = 20000
                 /\ tab_content.capacity = 50
                 /\ tab_content.usage.num = 40 * tab_content.usage.den
                 /\ tab_content.status = "SAFE"

\* The load tab open on Three-phase, 50 kW and the default loads.
C25_Witness ==
    /\ selected_phase = Some("three")
    /\ selected_power = Some(50)
    /\ LoadTabShown
    /\ loads = DEFAULT_LOADS
    /\ tab_content.status = "SAFE"

\* C26: under any selections of a phase, selections of a rating and resets,
\* a specification is resolved only while a phase and a rating are both
\* selected, and it is then the entry the catalog lists for that phase and
\* that rating; after a reset the phase, the rating and the resolved
\* specification are all cleared.
C26_ResolvedMatchesSelection ==
    /\ current_specs # None
         => /\ selected_phase # None
            /\ selected_power # None
            /\ LET table == IF selected_phase[1] = "single" THEN catalog.single
                            ELSE catalog.three
               IN  /\ selected_power[1] \in DOMAIN table
                   /\ current_specs[1] = table[selected_power[1]]
    /\ last.op = "reset"
         => selected_phase = None /\ selected_power = None /\ current_specs = None

\* A reset that cleared a resolved selection.
C26_Witness ==
    /\ last.op = "reset"
    /\ current_specs = None
    /\ ~results_visible

\* A text that is no integer to int(): not empty, and all blank or holding
\* a character that is no digit, sign, underscore or blank.
NoInteger(text) ==
    /\ text # <<>>
    /\ \/ \A i \in DOMAIN text : IsSpace(text[i])
       \/ \E i \in DOMAIN text :
            ~IsDigit(text[i]) /\ ~IsSpace(text[i]) /\ text[i] \notin {"+", "-", "_"}

\* C27: an add whose wattage or quantity text is no integer is rejected, and
\* the ledger and the id counter are then exactly what they were before the
\* attempt: no entry is appended and no id is given out.
C27_RejectedAddLeavesLedger ==
    /\ (last.op = "submit" /\ (NoInteger(last.watts) \/ NoInteger(last.qty)))
         => ~last.added
    /\ (last.op = "submit" /\ ~last.added)
         => /\ loads = last.before
            /\ load_id = last.id_before
            /\ \A i \in DOMAIN issued : issued[i] < load_id

\* The add of "abc" watts was rejected after an entry had been added.
C27_Witness ==
    /\ last.op = "submit"
    /\ ~last.added
    /\ last.watts = <<"a", "b", "c">>
    /\ load_id > FIRST_LOAD_ID
    /\ dialog = TRUE

\* C28: the ledger and its id counter change in no step but an accepted add
\* and a remove: a selection of a phase or of a rating, a reset, a switch of
\* tab and a save leave both as they were, so that a ledger the user has
\* changed is not seeded with the default loads again.
C28_OnlyAddAndRemoveChangeLedger ==
    [][ /\ last'.op \in {"select_phase", "select_power", "reset", "switch_tab",
                          "save_report"}
             => loads' = loads /\ load_id' = load_id
        /\ (loads' # loads \/ load_id' # load_id)
             => \/ last'.op = "submit" /\ last'.added
                \/ last'.op = "remove_load" ]_vars

\* A reset after a save, the ledger holding an added load and not the first
\* default.
C28_Witness ==
    /\ last.op = "reset"
    /\ now > 0
    /\ Len(loads) = 3
    /\ loads # DEFAULT_LOADS
    /\ load_id = FIRST_LOAD_ID + 1

\* The step just taken built the load tab.
LoadTabBuilt ==
    \/ last.op = "switch_tab" /\ last.tab = "load"
    \/ last.op = "submit" /\ last.added
    \/ last.op = "remove_load"

\* C29: in every step that computes the load tab a rating of 30, 32, 40, 50
\* or 60 kW is selected and a specification is resolved, and the capacity
\* the tab classifies against is that rating; while nothing is resolved the
\* tab bar and the add dialog are out of reach, so the fallback of 30 kW
\* stands in for a missing rating in no reachable state.
C29_LoadViewHasRating ==
    /\ LoadTabBuilt
         => /\ selected_power # None
            /\ selected_power[1] \in {30, 32, 40, 50, 60}
            /\ current_specs # None
            /\ tab_content.kind = "load"
            /\ tab_content.capacity = selected_power[1]
    /\ (results_visible \/ dialog = TRUE) => current_specs # None /\ TruthyInt(selected_power)

\* A remove rebuilt the load tab at 60 kW after a load had been added.
C29_Witness ==
    /\ last.op = "remove_load"
    /\ selected_power = Some(60)
    /\ tab_content.capacity = 60
    /\ load_id > FIRST_LOAD_ID

\* C30: the checklist of an assembled payload is keyed by item labels of
\* the static checklist alone; its keys are none at all, when the safety tab
\* has not been built in the session, or every label of the checklist, never
\* some of them only; and every key maps to a boolean.
C30_ChecklistSnapshotAllOrNothing ==
    /\ Cardinality(ChecklistLabels) = Len(ChecklistItems)
    /\ payload # None
         => /\ DOMAIN payload[1].checklist \subseteq ChecklistLabels
            /\ DOMAIN payload[1].checklist \in {{}, ChecklistLabels}
            /\ \A k \in DOMAIN payload[1].checklist :
                 payload[1].checklist[k] \in BOOLEAN
    /\ (last.op = "save_report" /\ last.assembled)
         => /\ DOMAIN payload[1].checklist = DOMAIN checklist_vars
            /\ (checklist_vars = <<>>) <=> (DOMAIN payload[1].checklist = {})

\* A payload assembled after the safety tab was built and one item ticked.
C30_Witness ==
    /\ last.op = "save_report"
    /\ last.assembled
    /\ DOMAIN payload[1].checklist = ChecklistLabels
    /\ payload[1].checklist[ChecklistItems[1]] = TRUE
    /\ payload[1].checklist[ChecklistItems[2]] = FALSE

====
